---- MODULE Spec2Model ----
(***************************************************************************)
(* Method-call resolution and type checking of sway-core:                  *)
(*   semantic_analysis/ast_node/expression/typed_expression/               *)
(*   method_application.rs                                                 *)
(* type_check_method_application and resolve_method_name, one action per   *)
(* block of the function, in source order.  The collaborators the function *)
(* calls (namespace lookup, expression type checking, unification, the     *)
(* declaration engine, the arity check) are operators of their own.        *)
(* Option values are sequences: <<>> is None, <<x>> is Some(x).            *)
(* Warnings never alter control flow and are not modelled.                 *)
(***************************************************************************)
EXTENDS Integers, Sequences, FiniteSets, TLC

\* ------------------------------------------------------------------ bounds
MaxArgs == 2
MaxCallParams == 2
MaxCalls == 2

\* ------------------------------------------------- sway_types::constants
CONTRACT_CALL_GAS_PARAMETER_NAME == "gas"
CONTRACT_CALL_COINS_PARAMETER_NAME == "coins"
CONTRACT_CALL_ASSET_ID_PARAMETER_NAME == "asset_id"

\* The three names the sources iterate over, in the order of the array literal.
ContractCallParamNames ==
  << CONTRACT_CALL_GAS_PARAMETER_NAME,
     CONTRACT_CALL_COINS_PARAMETER_NAME,
     CONTRACT_CALL_ASSET_ID_PARAMETER_NAME >>

\* ------------------------------------------------------------ small helpers
Range(s) == { s[i] : i \in DOMAIN s }

SeqsUpTo(S, n) == UNION { [1..k -> S] : k \in 0..n }

\* A source location: what it is attached to and, for arguments and
\* contract-call parameters, the position in the list.
SpanOf(at, ix) == [at |-> at, ix |-> ix]

\* A CompileError: its variant, its span and, where it has one, the name it reports.
ErrNamed(kind, sp, name) == [kind |-> kind, span |-> sp, name |-> name]

Err(kind, sp) == ErrNamed(kind, sp, "")

CountKind(es, kind) == Cardinality({ i \in DOMAIN es : es[i].kind = kind })

\* ------------------------------------------------ declarations (ty::TyFunctionDeclaration)
Param(name, type_id, is_self, is_mutable) ==
  [name |-> name, type_id |-> type_id, is_self |-> is_self, is_mutable |-> is_mutable]

FnDecl(name, tps, params, ret, purity, vis, path, cc, payable) ==
  [name |-> name, type_parameters |-> tps, parameters |-> params,
   return_type |-> ret, purity |-> purity, visibility |-> vis,
   span_path |-> path, is_contract_call |-> cc, payable |-> payable]

\* Purity as the set of storage accesses it allows: Pure = {}, Reads = {"r"},
\* Writes = {"w"}, ReadsWrites = {"r","w"}.
Pure == {}
Writes == {"w"}
ReadsWrites == {"r", "w"}

\* The declarations the namespace knows when analysis of a call begins.
\* ABI methods (is_contract_call) are public and take no ref mut parameter.
BaseDecls ==
  << FnDecl("get", <<>>, << Param("self", "S", TRUE, FALSE) >>,
            "u64", Pure, "Public", "main", FALSE, FALSE),
     FnDecl("set", <<>>, << Param("self", "S", TRUE, TRUE), Param("v", "u64", FALSE, FALSE) >>,
            "unit", Writes, "Public", "main", FALSE, FALSE),
     FnDecl("new", <<>>, << Param("x", "u64", FALSE, FALSE) >>,
            "S", Pure, "Private", "main", FALSE, FALSE),
     FnDecl("secret", <<>>, << Param("self", "S", TRUE, FALSE) >>,
            "bool", Pure, "Private", "lib", FALSE, FALSE),
     FnDecl("transfer", <<>>, << Param("amount", "u64", FALSE, FALSE) >>,
            "bool", ReadsWrites, "Public", "lib", TRUE, FALSE),
     FnDecl("deposit", <<>>, << Param("amount", "u64", FALSE, FALSE) >>,
            "unit", ReadsWrites, "Public", "lib", TRUE, TRUE),
     FnDecl("id", << "T" >>, << Param("self", "S", TRUE, FALSE), Param("v", "T", FALSE, FALSE) >>,
            "T", Pure, "Public", "main", FALSE, FALSE),
     FnDecl("zero", <<>>, <<>>,
            "u64", Pure, "Public", "main", FALSE, FALSE),
     FnDecl("bump", <<>>, << Param("n", "u64", FALSE, TRUE) >>,
            "unit", Pure, "Public", "main", FALSE, FALSE) >>

MethodNames == { BaseDecls[i].name : i \in DOMAIN BaseDecls } \cup { "missing" }

\* ------------------------------------------------ namespace (external collaborator)
\* Symbols of the enclosing scope: kind of declaration, mutability, type.
SymbolNames == { "m", "i", "k", "c", "cu" }

Symbols ==
  [n \in SymbolNames |->
     CASE n = "m"  -> [decl |-> "VariableDeclaration", mutable |-> TRUE,  type_id |-> "S"]
       [] n = "i"  -> [decl |-> "VariableDeclaration", mutable |-> FALSE, type_id |-> "S"]
       [] n = "k"  -> [decl |-> "ConstantDeclaration", mutable |-> FALSE, type_id |-> "u64"]
       [] n = "c"  -> [decl |-> "VariableDeclaration", mutable |-> FALSE, type_id |-> "Caller"]
       [] n = "cu" -> [decl |-> "VariableDeclaration", mutable |-> FALSE, type_id |-> "CallerNoAddr"]]

\* Storage fields of the enclosing unit, when it declares storage.
StorageFields == << "f0", "f1" >>

\* ------------------------------------------------ parsed input of one call
\* Expression: kind and the name it mentions (variable name, literal type,
\* storage field name).
Expr(kind, name) == [kind |-> kind, name |-> name]

\* Expressions that may stand in first (receiver) position.
ReceiverExprs ==
  { Expr("Variable", "m"), Expr("Variable", "i"), Expr("Variable", "k"),
    Expr("Variable", "c"), Expr("Variable", "cu"),
    Expr("Literal", "u64"),
    Expr("StorageAccess", "f1"), Expr("StorageAccess", "nf") }

\* Expressions in the later positions.
RestExprs == { Expr("Literal", "u64"), Expr("Literal", "bool") }

ArgLists ==
  { <<>> } \cup
  { << r >> \o rest : r \in ReceiverExprs, rest \in SeqsUpTo(RestExprs, MaxArgs - 1) }

\* StructExpressionField: a name and a value; of the value only what
\* coins_analysis::possibly_nonzero_u64_expression says about it matters.
CallParam(name, nonzero) == [name |-> name, possibly_nonzero |-> nonzero]

CallParamChoices ==
  { CallParam("gas", TRUE), CallParam("coins", FALSE), CallParam("coins", TRUE),
    CallParam("asset_id", TRUE), CallParam("foo", TRUE) }

CallParamLists == SeqsUpTo(CallParamChoices, MaxCallParams)

\* MethodName variants; TypeBinding adds the explicit type arguments.
Shapes == { "FromType", "FromTrait", "FromModule" }

TypeArgLists == { <<>>, << "u64" >>, << "bool" >> }

Binding(shape, name, targs) ==
  [inner |-> [shape |-> shape, method_name |-> name], type_arguments |-> targs]

\* The call site: the source unit of the call's span, the caller's purity and
\* whether the enclosing unit declares storage.
Site(path, purity, storage) == [path |-> path, purity |-> purity, has_storage |-> storage]

CallSites ==
  { Site(path, purity, storage) :
      path \in { "main", "lib" }, purity \in { Pure, ReadsWrites }, storage \in BOOLEAN }

Input(mnb, ccp, args, site) ==
  [method_name_binding |-> mnb, contract_call_params |-> ccp, arguments |-> args, site |-> site]

\* Calls without contract-call parameters, over every argument list.
ArgumentInputs ==
  { Input(Binding(sh, n, ta), <<>>, args, site) :
      sh \in Shapes, n \in MethodNames, ta \in TypeArgLists,
      args \in ArgLists, site \in CallSites }

\* Calls with contract-call parameters, over a few argument lists.
CallParamInputs ==
  { Input(Binding(sh, n, <<>>), ccp, args, site) :
      sh \in Shapes, n \in MethodNames, ccp \in CallParamLists \ { <<>> },
      args \in { << Expr("Variable", "c"), Expr("Literal", "u64") >>,
                 << Expr("Variable", "cu"), Expr("Literal", "u64") >>,
                 << Expr("Variable", "m") >>,
                 << Expr("Variable", "c") >> },
      site \in { Site("main", Pure, TRUE), Site("lib", ReadsWrites, FALSE) } }

Inputs == ArgumentInputs \cup CallParamInputs

\* Calls used to study the declaration engine over several resolutions.
StoreInputs ==
  { Input(Binding("FromModule", n, ta), <<>>, args, Site("main", Pure, FALSE)) :
      n \in { "id", "get", "missing" }, ta \in TypeArgLists,
      args \in { << Expr("Variable", "m"), Expr("Literal", "u64") >>,
                 << Expr("Variable", "m"), Expr("Literal", "bool") >>,
                 << Expr("Variable", "m") >> } }

\* ------------------------------------------------ typed expressions (ty::TyExpression)
TyExpr(variant, name, ty) == [variant |-> variant, name |-> name, return_type |-> ty]

\* ty::TyExpression::error: the error-marker expression.
TyExpressionError == TyExpr("Error", "", "Err")

\* ty::TyExpression::type_check of an argument: <<typed>> or <<>> on failure.
\* A variable types to a VariableExpression (also when it names a constant),
\* a storage access needs declared storage and an existing field.
TypeCheckExpression(e, has_storage) ==
  CASE e.kind = "Variable" ->
         IF e.name \in SymbolNames
           THEN << TyExpr("VariableExpression", e.name, Symbols[e.name].type_id) >>
           ELSE <<>>
    [] e.kind = "Literal" -> << TyExpr("Literal", e.name, e.name) >>
    [] e.kind = "StorageAccess" ->
         IF has_storage /\ e.name \in Range(StorageFields)
           THEN << TyExpr("StorageAccess", e.name, "S") >>
           ELSE <<>>

\* type_engine.unify_right_with_self: TRUE when it reports no error.  Equal
\* types unify, the error type and an unbound type parameter unify with all.
Unifies(arg_type, param_type) ==
  \/ arg_type = param_type
  \/ arg_type = "Err"
  \/ param_type = "Err"
  \/ param_type = "T"

\* type_engine.look_up_type_id(..) matched against TypeInfo::ContractCaller
\* { address, .. }: the address when the type is a contract caller with one.
ContractCallerAddress(type_id) ==
  IF type_id = "Caller" THEN << "addr" >> ELSE <<>>

IsContractCaller(type_id) == type_id \in { "Caller", "CallerNoAddr" }

\* Purity::can_call: the caller allows every access the callee makes.
CanCall(caller, callee) == callee \subseteq caller

\* namespace.find_method_for_type: the id of the method of that name, 0 when
\* there is none.  No method is looked up for a receiver of the error type.
FindMethodForType(type_id, name) ==
  IF type_id # "Err" /\ \E i \in DOMAIN BaseDecls : BaseDecls[i].name = name
    THEN CHOOSE i \in DOMAIN BaseDecls : BaseDecls[i].name = name
    ELSE 0

\* ctx.monomorphize with EnforceTypeArguments::No: <<decl>> or <<>> on failure.
\* Without type arguments the type parameters stay open; with them their
\* number must be that of the type parameters, which they replace.
Subst(ty, tps, targs) ==
  IF \E i \in DOMAIN tps : tps[i] = ty
    THEN targs[CHOOSE i \in DOMAIN tps : tps[i] = ty]
    ELSE ty

Monomorphize(decl, targs) ==
  IF targs = <<>> THEN << decl >>
  ELSE IF Len(targs) # Len(decl.type_parameters) THEN <<>>
  ELSE << [decl EXCEPT
             !.type_parameters = <<>>,
             !.parameters = [i \in DOMAIN decl.parameters |->
                 [decl.parameters[i] EXCEPT
                    !.type_id = Subst(decl.parameters[i].type_id, decl.type_parameters, targs)]],
             !.return_type = Subst(decl.return_type, decl.type_parameters, targs)] >>

\* check_function_arguments_arity: <<>> when the counts agree, else the error.
CheckFunctionArgumentsArity(arguments_len, function_decl, dot_syntax_used) ==
  IF arguments_len = Len(function_decl.parameters) THEN <<>>
  ELSE IF arguments_len < Len(function_decl.parameters)
    THEN << "TooFewArgumentsForFunction" >>
    ELSE << "TooManyArgumentsForFunction" >>

\* ------------------------------------------------------------------ state
VARIABLES
  decls,                    \* declaration engine: id -> function declaration
  parents,                  \* declaration engine: id -> parent id (0: none)
  calls,                    \* number of calls analysed so far
  pc,                       \* position in type_check_method_application
  method_name_binding,      \* the four parameters of the call under analysis
  contract_call_params,
  arguments,
  span,
  ctx,                      \* TypeCheckContext: purity, namespace storage
  args_buf,                 \* locals of type_check_method_application
  errors,
  decl_id,
  contract_call_params_map,
  self_state_idx,
  is_method_call_syntax_used,
  selector,
  exp                       \* the value of the returned CompileResult

vars ==
  << decls, parents, calls, pc, method_name_binding, contract_call_params, arguments,
     span, ctx, args_buf, errors, decl_id, contract_call_params_map, self_state_idx,
     is_method_call_syntax_used, selector, exp >>

inputVars == << method_name_binding, contract_call_params, arguments, span, ctx >>

storeVars == << decls, parents >>

NoBinding == Binding("FromModule", "", <<>>)

\* The empty HashMap: a function with empty domain.
EmptyMap == [n \in {} |-> CallParam("", FALSE)]

Init ==
  /\ decls = BaseDecls
  /\ parents = [i \in DOMAIN BaseDecls |-> 0]
  /\ calls = 0
  /\ pc = "idle"
  /\ method_name_binding = NoBinding
  /\ contract_call_params = <<>>
  /\ arguments = <<>>
  /\ span = [path |-> "main"]
  /\ ctx = [purity |-> Pure, has_storage |-> FALSE]
  /\ args_buf = <<>>
  /\ errors = <<>>
  /\ decl_id = 0
  /\ contract_call_params_map = EmptyMap
  /\ self_state_idx = <<>>
  /\ is_method_call_syntax_used = FALSE
  /\ selector = <<>>
  /\ exp = <<>>

\* declaration_engine.get_function(decl_id): the declaration the call resolved to.
method == decls[decl_id]

\* Mutant: the receiver mutability check placed before the check of the call
\* syntax.
AfterMutabilityFirst(p) ==
  CASE p = "idle"        -> "resolve"
    [] p = "resolve"     -> "visibility"
    [] p = "visibility"  -> "purity"
    [] p = "purity"      -> "call_params"
    [] p = "call_params" -> "storage"
    [] p = "storage"     -> "mutability"
    [] p = "mutability"  -> "syntax"
    [] p = "syntax"      -> "selector"
    [] p = "selector"    -> "arity"
    [] p = "arity"       -> "unify"
    [] p = "unify"       -> "done"

\* The blocks of type_check_method_application in source order: the block
\* that follows block p when p does not return.
After(p) ==
  CASE p = "idle"        -> "resolve"
    [] p = "resolve"     -> "visibility"
    [] p = "visibility"  -> "purity"
    [] p = "purity"      -> "call_params"
    [] p = "call_params" -> "storage"
    [] p = "storage"     -> "syntax"
    [] p = "syntax"      -> "mutability"
    [] p = "mutability"  -> "selector"
    [] p = "selector"    -> "arity"
    [] p = "arity"       -> "unify"
    [] p = "unify"       -> "done"

\* `return err(warnings, errors)`: the call ends without an expression.
ReturnErr(es) ==
  /\ errors' = es
  /\ exp' = <<>>
  /\ pc' = "done"

\* ---------------------------------------------------------------- lines 16-43
\* The errors of the arguments whose type check fails, in argument order.
RECURSIVE ArgumentErrors(_, _, _)
ArgumentErrors(args, has_storage, i) ==
  IF i > Len(args) THEN <<>>
  ELSE (IF TypeCheckExpression(args[i], has_storage) = <<>>
          THEN << Err("ArgumentTypeCheckError", SpanOf("arg", i)) >>
          ELSE <<>>)
       \o ArgumentErrors(args, has_storage, i + 1)

\* Lines 31-43: each argument typed, a failing one replaced by the error
\* expression.
TypedArguments(args, has_storage) ==
  [i \in DOMAIN args |->
     LET r == TypeCheckExpression(args[i], has_storage)
     IN  IF r = <<>> THEN TyExpressionError ELSE r[1]]

\* Entry of type_check_method_application.
TypeCheckArguments(in) ==
  /\ calls' = calls + 1
  /\ method_name_binding' = in.method_name_binding
  /\ contract_call_params' = in.contract_call_params
  /\ arguments' = in.arguments
  /\ span' = [path |-> in.site.path]
  /\ ctx' = [purity |-> in.site.purity, has_storage |-> in.site.has_storage]
  /\ args_buf' = TypedArguments(in.arguments, in.site.has_storage)
  /\ errors' = ArgumentErrors(in.arguments, in.site.has_storage, 1)
  /\ decl_id' = 0
  /\ contract_call_params_map' = EmptyMap
  /\ self_state_idx' = <<>>
  /\ is_method_call_syntax_used' = FALSE
  /\ selector' = <<>>
  /\ exp' = <<>>
  /\ pc' = After(pc)
  /\ UNCHANGED storeVars

\* ------------------------------------------------- lines 45-59 and 383-512
\* declaration_engine.insert_function(decl).with_parent(engine, parent): the
\* store with the declaration appended under a fresh id whose parent is set.
InsertFunctionWithParent(ds, ps, decl, parent) ==
  [decls |-> Append(ds, decl), parents |-> Append(ps, parent), id |-> Len(ds) + 1]

\* Lines 403, 441, 465: the type the method is looked up for is the type of
\* the call path for MethodName::FromType, else the type of the first
\* argument, or an unknown type when there is no argument.
ReceiverType(mnb, args) ==
  IF mnb.inner.shape = "FromType" THEN "S"
  ELSE IF args = <<>> THEN "Unknown"
  ELSE args[1].return_type

\* A resolution that fails leaves the store as it is; a lookup for a receiver
\* of the error type fails without an error of its own.
ResolveFailure(ds, ps, kind) ==
  [ok |-> FALSE, decls |-> ds, parents |-> ps, id |-> 0, error |-> kind]

\* Mutant of resolve_method_name: the id found by the namespace is returned
\* as it is, nothing is inserted.
ResolveMethodNameNoInsert(ds, ps, mnb, args) ==
  LET found == FindMethodForType(ReceiverType(mnb, args), mnb.inner.method_name)
  IN  IF found = 0
        THEN ResolveFailure(ds, ps,
               IF ReceiverType(mnb, args) = "Err" THEN "" ELSE "MethodNotFound")
      ELSE IF Monomorphize(ds[found], mnb.type_arguments) = <<>>
        THEN ResolveFailure(ds, ps, "IncorrectNumberOfTypeArguments")
        ELSE [ok |-> TRUE, decls |-> ds, parents |-> ps, id |-> found, error |-> ""]

\* resolve_method_name: the three MethodName variants end in the same
\* namespace query, for the receiver type of the variant; the declaration
\* found is monomorphized and the copy is inserted with the declaration found
\* as its parent.
ResolveMethodNameResult(ds, ps, mnb, args) ==
  LET found == FindMethodForType(ReceiverType(mnb, args), mnb.inner.method_name)
  IN  IF found = 0
        THEN ResolveFailure(ds, ps,
               IF ReceiverType(mnb, args) = "Err" THEN "" ELSE "MethodNotFound")
      ELSE LET mono == Monomorphize(ds[found], mnb.type_arguments)
           IN  IF mono = <<>>
                 THEN ResolveFailure(ds, ps, "IncorrectNumberOfTypeArguments")
                 ELSE LET ins == InsertFunctionWithParent(ds, ps, mono[1], found)
                      IN  [ok |-> TRUE, decls |-> ins.decls, parents |-> ins.parents,
                           id |-> ins.id, error |-> ""]

\* Lines 45-59: resolve_method_name, then get_function on the id it returns.
ResolveMethodName ==
  /\ pc = "resolve"
  /\ LET r == ResolveMethodNameResult(decls, parents, method_name_binding, args_buf)
     IN  /\ decls' = r.decls
         /\ parents' = r.parents
         /\ decl_id' = r.id
         /\ IF r.ok
              THEN /\ pc' = After(pc)
                   /\ UNCHANGED << errors, exp >>
              ELSE ReturnErr(IF r.error = "" THEN errors
                             ELSE Append(errors, Err(r.error, SpanOf("method_name", 0))))
  /\ UNCHANGED << calls, inputVars, args_buf, contract_call_params_map, self_state_idx,
                  is_method_call_syntax_used, selector >>

\* ---------------------------------------------------------------- lines 61-68
\* Mutant: the paths compared for equality.
IsPrivateCallSamePath(sp, decl) ==
  sp.path = decl.span_path /\ decl.visibility = "Private"

\* Line 62: span.path() != method.span.path() && method.visibility.is_private()
IsPrivateCall(sp, decl) ==
  sp.path # decl.span_path /\ decl.visibility = "Private"

CheckVisibility ==
  /\ pc = "visibility"
  /\ IF IsPrivateCall(span, method)
       THEN ReturnErr(Append(errors,
              ErrNamed("CallingPrivateLibraryMethod", SpanOf("call", 0), method.name)))
       ELSE /\ pc' = After(pc)
            /\ UNCHANGED << errors, exp >>
  /\ UNCHANGED << storeVars, calls, inputVars, args_buf, decl_id, contract_call_params_map,
                  self_state_idx, is_method_call_syntax_used, selector >>

\* ---------------------------------------------------------------- lines 70-84
\* Mutant: one diagnostic for each contract-call parameter, each at its own name.
CheckPurityEachParam ==
  /\ pc = "purity"
  /\ errors' =
       IF method.is_contract_call THEN errors
       ELSE errors
            \o (IF ~CanCall(ctx.purity, method.purity)
                  THEN << Err("StorageAccessMismatch", SpanOf("method_name", 0)) >>
                  ELSE <<>>)
            \o [i \in DOMAIN contract_call_params |->
                  Err("CallParamForNonContractCallMethod", SpanOf("param", i))]
  /\ pc' = After(pc)
  /\ UNCHANGED << storeVars, calls, inputVars, args_buf, decl_id, contract_call_params_map,
                  self_state_idx, is_method_call_syntax_used, selector, exp >>

CheckPurity ==
  /\ pc = "purity"
  /\ errors' =
       IF method.is_contract_call THEN errors
       ELSE errors
            \o (IF ~CanCall(ctx.purity, method.purity)
                  THEN << Err("StorageAccessMismatch", SpanOf("method_name", 0)) >>
                  ELSE <<>>)
            \o (IF contract_call_params # <<>>
                  THEN << Err("CallParamForNonContractCallMethod", SpanOf("param", 1)) >>
                  ELSE <<>>)
  /\ pc' = After(pc)
  /\ UNCHANGED << storeVars, calls, inputVars, args_buf, decl_id, contract_call_params_map,
                  self_state_idx, is_method_call_syntax_used, selector, exp >>

\* --------------------------------------------------------------- lines 86-165
\* Mutant: a name counts as repeated from its first occurrence on.
IsRepeatedFromFirst(params, name) ==
  Cardinality({ i \in DOMAIN params : params[i].name = name }) > 0

\* Lines 94-98: the name is supplied more than once.
IsRepeated(params, name) ==
  Cardinality({ i \in DOMAIN params : params[i].name = name }) > 1

\* Lines 89-105: one error for each of the three names supplied more than once.
RECURSIVE RepeatedErrors(_, _)
RepeatedErrors(params, k) ==
  IF k > Len(ContractCallParamNames) THEN <<>>
  ELSE (IF IsRepeated(params, ContractCallParamNames[k])
          THEN << ErrNamed("ContractCallParamRepeated", SpanOf("call", 0),
                           ContractCallParamNames[k]) >>
          ELSE <<>>)
       \o RepeatedErrors(params, k + 1)

\* HashMap::insert: a later value for the same key replaces the earlier one.
MapInsert(map, key, value) ==
  [n \in (DOMAIN map) \cup { key } |-> IF n = key THEN value ELSE map[n]]

\* Lines 107-143: a recognised parameter goes into the map, any other name is
\* reported where it stands.
RECURSIVE CollectCallParams(_, _, _, _)
CollectCallParams(params, i, map, errs) ==
  IF i > Len(params) THEN [map |-> map, errors |-> errs]
  ELSE IF params[i].name \in Range(ContractCallParamNames)
    THEN CollectCallParams(params, i + 1, MapInsert(map, params[i].name, params[i]), errs)
    ELSE CollectCallParams(params, i + 1, map,
           Append(errs, ErrNamed("UnrecognizedContractParam", SpanOf("param", i),
                                 params[i].name)))

\* Mutant: the payable attribute read the wrong way round.
CoinsToPayable(map, decl) ==
  /\ CONTRACT_CALL_COINS_PARAMETER_NAME \in DOMAIN map
  /\ map[CONTRACT_CALL_COINS_PARAMETER_NAME].possibly_nonzero
  /\ decl.payable

\* Lines 149-157: coins that may be nonzero sent to a method that is not payable.
CoinsToNonPayable(map, decl) ==
  /\ CONTRACT_CALL_COINS_PARAMETER_NAME \in DOMAIN map
  /\ map[CONTRACT_CALL_COINS_PARAMETER_NAME].possibly_nonzero
  /\ ~decl.payable

CheckContractCallParams ==
  /\ pc = "call_params"
  /\ IF ~method.is_contract_call
       THEN /\ pc' = After(pc)
            /\ UNCHANGED << errors, exp, contract_call_params_map >>
       ELSE LET rep == RepeatedErrors(contract_call_params, 1)
                col == CollectCallParams(contract_call_params, 1, EmptyMap, errors \o rep)
            IN  /\ contract_call_params_map' = col.map
                /\ IF CoinsToNonPayable(col.map, method)
                     THEN ReturnErr(Append(col.errors,
                            ErrNamed("CoinsPassedToNonPayableMethod", SpanOf("call", 0),
                                     method.name)))
                     ELSE /\ errors' = col.errors
                          /\ pc' = After(pc)
                          /\ UNCHANGED exp
  /\ UNCHANGED << storeVars, calls, inputVars, args_buf, decl_id,
                  self_state_idx, is_method_call_syntax_used, selector >>

\* -------------------------------------------------------------- lines 167-199
\* Mutant: the last argument is inspected instead of the first.
LastArgStorageField(args) ==
  IF args # <<>> /\ args[Len(args)].kind = "StorageAccess"
    THEN << args[Len(args)].name >> ELSE <<>>

\* Lines 179-181: the first field name when the first argument is a storage
\* access, <<>> for any other argument and for no argument.
FirstArgStorageField(args) ==
  IF args # <<>> /\ args[1].kind = "StorageAccess" THEN << args[1].name >> ELSE <<>>

\* Lines 182-194: position (from 0) of the field among the storage field
\* descriptors, <<>> when there is no such field.
StorageFieldIndex(field) ==
  IF \E ix \in DOMAIN StorageFields : StorageFields[ix] = field
    THEN << (CHOOSE ix \in DOMAIN StorageFields : StorageFields[ix] = field) - 1 >>
    ELSE <<>>

RecordStorageIndex ==
  /\ pc = "storage"
  /\ LET field == FirstArgStorageField(arguments)
     IN  IF ctx.has_storage /\ field # <<>>
           THEN LET ix == StorageFieldIndex(field[1])
                IN  IF ix = <<>>
                      THEN /\ ReturnErr(Append(errors,
                                  ErrNamed("StorageFieldDoesNotExist", SpanOf("arg", 1),
                                           field[1])))
                           /\ UNCHANGED self_state_idx
                      ELSE /\ self_state_idx' = ix
                           /\ pc' = After(pc)
                           /\ UNCHANGED << errors, exp >>
           ELSE /\ self_state_idx' = <<>>
                /\ pc' = After(pc)
                /\ UNCHANGED << errors, exp >>
  /\ UNCHANGED << storeVars, calls, inputVars, args_buf, decl_id, contract_call_params_map,
                  is_method_call_syntax_used, selector >>

\* -------------------------------------------------------------- lines 201-220
\* Mutant: every variant but the trait-qualified one counts as method call syntax.
IsNotFromTrait(mnb) == mnb.inner.shape # "FromTrait"

\* Line 205: if let MethodName::FromModule { .. } = method_name_binding.inner
IsFromModule(mnb) == mnb.inner.shape = "FromModule"

\* Lines 207-211: method.parameters.get(0).map(|f| f.is_self()).unwrap_or_default()
IsFirstParamSelf(decl) ==
  IF decl.parameters = <<>> THEN FALSE ELSE decl.parameters[1].is_self

CheckMethodCallSyntax ==
  /\ pc = "syntax"
  /\ IF ~method.is_contract_call /\ IsFromModule(method_name_binding)
       THEN /\ is_method_call_syntax_used' = TRUE
            /\ IF ~IsFirstParamSelf(method)
                 THEN ReturnErr(Append(errors,
                        ErrNamed("AssociatedFunctionCalledAsMethod", SpanOf("call", 0),
                                 method_name_binding.inner.method_name)))
                 ELSE /\ pc' = After(pc)
                      /\ UNCHANGED << errors, exp >>
       ELSE /\ pc' = After(pc)
            /\ UNCHANGED << errors, exp, is_method_call_syntax_used >>
  /\ UNCHANGED << storeVars, calls, inputVars, args_buf, decl_id, contract_call_params_map,
                  self_state_idx, selector >>

\* -------------------------------------------------------------- lines 222-262
\* Lines 224-232: the check applies when the first typed argument is a
\* variable expression and the first parameter is mutable.
MutabilityCheckApplies(buf, decl) ==
  /\ buf # <<>>
  /\ buf[1].variant = "VariableExpression"
  /\ decl.parameters # <<>>
  /\ decl.parameters[1].is_mutable

\* Mutant: every variable declaration counts as mutable.
IsDeclVariable(name) == Symbols[name].decl # "ConstantDeclaration"

\* Lines 233-251: a constant is never mutable, a variable as it was declared.
\* The name of a typed variable expression always resolves, to a variable or
\* to a constant, so resolve_symbol and expect_variable succeed.
IsDeclMutable(name) ==
  IF Symbols[name].decl = "ConstantDeclaration" THEN FALSE ELSE Symbols[name].mutable

CheckSelfMutability ==
  /\ pc = "mutability"
  /\ IF MutabilityCheckApplies(args_buf, method) /\ ~IsDeclMutable(args_buf[1].name)
       THEN ReturnErr(Append(errors,
              ErrNamed("MethodRequiresMutableSelf", SpanOf("call", 0), args_buf[1].name)))
       ELSE /\ pc' = After(pc)
            /\ UNCHANGED << errors, exp >>
  /\ UNCHANGED << storeVars, calls, inputVars, args_buf, decl_id, contract_call_params_map,
                  self_state_idx, is_method_call_syntax_used, selector >>

\* -------------------------------------------------------------- lines 264-288
CallPathOf(mnb) ==
  [prefixes |-> IF mnb.inner.shape = "FromType" THEN << "S" >> ELSE <<>>,
   suffix |-> mnb.inner.method_name]

\* -------------------------------------------------------------- lines 290-324
\* For a contract call the contract caller is taken off the front of the
\* arguments and must be of a contract caller type with a known address.
BuildSelector ==
  /\ pc = "selector"
  /\ IF method.is_contract_call
       THEN LET contract_caller == IF args_buf = <<>> THEN <<>> ELSE << Head(args_buf) >>
                is_caller == contract_caller # <<>>
                             /\ IsContractCaller(contract_caller[1].return_type)
                contract_address ==
                  IF is_caller THEN ContractCallerAddress(contract_caller[1].return_type)
                  ELSE <<>>
                errs == IF is_caller THEN errors
                        ELSE Append(errors, Err("Internal", SpanOf("call", 0)))
            IN  /\ args_buf' = IF args_buf = <<>> THEN <<>> ELSE Tail(args_buf)
                /\ IF contract_address = <<>>
                     THEN /\ ReturnErr(Append(errs,
                                 Err("ContractAddressMustBeKnown", SpanOf("call_path", 0))))
                          /\ UNCHANGED selector
                     ELSE /\ selector' = << [func_selector |-> method.name,
                                             contract_address |-> contract_address[1]] >>
                          /\ errors' = errs
                          /\ pc' = After(pc)
                          /\ UNCHANGED exp
       ELSE /\ selector' = <<>>
            /\ pc' = After(pc)
            /\ UNCHANGED << args_buf, errors, exp >>
  /\ UNCHANGED << storeVars, calls, inputVars, decl_id, contract_call_params_map,
                  self_state_idx, is_method_call_syntax_used >>

\* -------------------------------------------------------------- lines 326-337
\* Mutant: the arity error is recorded and the call goes on.
CheckArityContinue ==
  /\ pc = "arity"
  /\ LET r == CheckFunctionArgumentsArity(Len(args_buf), method, is_method_call_syntax_used)
     IN  errors' = IF r # <<>> THEN Append(errors, Err(r[1], SpanOf("call_path", 0)))
                   ELSE errors
  /\ pc' = After(pc)
  /\ UNCHANGED << storeVars, calls, inputVars, args_buf, decl_id, contract_call_params_map,
                  self_state_idx, is_method_call_syntax_used, selector, exp >>

\* check!(check_function_arguments_arity(..), return err(warnings, errors), ..)
CheckArity ==
  /\ pc = "arity"
  /\ LET r == CheckFunctionArgumentsArity(Len(args_buf), method, is_method_call_syntax_used)
     IN  IF r # <<>>
           THEN ReturnErr(Append(errors, Err(r[1], SpanOf("call_path", 0))))
           ELSE /\ pc' = After(pc)
                /\ UNCHANGED << errors, exp >>
  /\ UNCHANGED << storeVars, calls, inputVars, args_buf, decl_id, contract_call_params_map,
                  self_state_idx, is_method_call_syntax_used, selector >>

\* -------------------------------------------------------------- lines 339-381
\* Lines 340-357: one error for each argument whose type does not unify with
\* the type of the parameter at its position; zip stops at the shorter list.
\* Mutant: unification stops at the first argument that does not unify.
UnifyErrorsFirstOnly(buf, params, i) ==
  LET bad == { j \in i..Len(buf) : j <= Len(params)
                 /\ ~Unifies(buf[j].return_type, params[j].type_id) }
  IN  IF bad = {} THEN <<>>
      ELSE << Err("ArgumentParameterTypeMismatch",
                  SpanOf("arg", CHOOSE j \in bad : \A k \in bad : j <= k)) >>

RECURSIVE UnifyErrors(_, _, _)
UnifyErrors(buf, params, i) ==
  IF i > Len(buf) \/ i > Len(params) THEN <<>>
  ELSE (IF ~Unifies(buf[i].return_type, params[i].type_id)
          THEN << Err("ArgumentParameterTypeMismatch", SpanOf("arg", i)) >>
          ELSE <<>>)
       \o UnifyErrors(buf, params, i + 1)

\* Lines 360-365: parameter names zipped with the typed arguments.
ArgsAndNames(params, buf) ==
  [i \in 1..(IF Len(params) < Len(buf) THEN Len(params) ELSE Len(buf)) |->
     << params[i].name, buf[i] >>]

\* Mutant: the return type read from the declaration the copy was made from.
ParentReturnType(ds, ps, id) == ds[ps[id]].return_type

\* Line 376: return_type: method.return_type, of the declaration resolved to.
MethodReturnType(ds, ps, id) == ds[id].return_type

UnifyAndAssemble ==
  /\ pc = "unify"
  /\ errors' = errors \o UnifyErrors(args_buf, method.parameters, 1)
  /\ exp' = << [call_path |-> CallPathOf(method_name_binding),
                contract_call_params |-> contract_call_params_map,
                arguments |-> ArgsAndNames(method.parameters, args_buf),
                function_decl_id |-> decl_id,
                self_state_idx |-> self_state_idx,
                selector |-> selector,
                return_type |-> MethodReturnType(decls, parents, decl_id),
                span |-> span] >>
  /\ pc' = After(pc)
  /\ UNCHANGED << storeVars, calls, inputVars, args_buf, decl_id, contract_call_params_map,
                  self_state_idx, is_method_call_syntax_used, selector >>

\* The caller takes the result; the next call starts from fresh locals and
\* the declaration engine as the call left it.
Return ==
  /\ pc = "done"
  /\ pc' = "idle"
  /\ UNCHANGED << storeVars, calls, inputVars, args_buf, errors, decl_id,
                  contract_call_params_map, self_state_idx, is_method_call_syntax_used,
                  selector, exp >>

\* ------------------------------------------------------------ specifications
\* The enclosing expression checker calls type_check_method_application.
Call(inputs) ==
  /\ pc = "idle"
  /\ calls < MaxCalls
  /\ \E in \in inputs : TypeCheckArguments(in)

Validate ==
  \/ ResolveMethodName
  \/ CheckVisibility
  \/ CheckPurity
  \/ CheckContractCallParams
  \/ RecordStorageIndex
  \/ CheckMethodCallSyntax
  \/ CheckSelfMutability
  \/ BuildSelector
  \/ CheckArity
  \/ UnifyAndAssemble

\* One call, over every input, from the declarations the namespace starts with.
Next ==
  \/ Call(Inputs)
  \/ Validate

Spec == Init /\ [][Next]_vars

\* Several calls one after the other over one declaration engine.
NextStore ==
  \/ Call(StoreInputs)
  \/ Validate
  \/ Return

SpecStore == Init /\ [][NextStore]_vars

\* ================================================================ properties
\* What a finished call looks like, said in terms of the call's inputs and of
\* the declaration it resolved to.
Done == pc = "done"

Resolved == decl_id # 0

Finished == Done /\ Resolved

HasError(kind) == \E i \in DOMAIN errors : errors[i].kind = kind

LastErrorKind == IF errors = <<>> THEN "" ELSE errors[Len(errors)].kind

ArityKinds == { "TooFewArgumentsForFunction", "TooManyArgumentsForFunction" }

\* The typed arguments as the call received them.
CallArgs == TypedArguments(arguments, ctx.has_storage)

\* The arguments that stand against the parameters: for a contract call the
\* contract caller in front is not one of them.
PositionalArgs ==
  IF method.is_contract_call /\ CallArgs # <<>> THEN Tail(CallArgs) ELSE CallArgs

ArgCountMatches == Len(PositionalArgs) = Len(method.parameters)

AllArgsUnify ==
  \A i \in DOMAIN PositionalArgs :
    i <= Len(method.parameters) =>
      Unifies(PositionalArgs[i].return_type, method.parameters[i].type_id)

\* The conditions of the checks that end a call, on the inputs of the call.
CondPrivate ==
  method.visibility = "Private" /\ span.path # method.span_path

\* The coins parameter that counts is the last one supplied.
LastCoins ==
  LET ix == { i \in DOMAIN contract_call_params : contract_call_params[i].name = "coins" }
  IN  IF ix = {} THEN <<>>
      ELSE << contract_call_params[CHOOSE i \in ix : \A j \in ix : j <= i] >>

CondCoins ==
  /\ method.is_contract_call
  /\ LastCoins # <<>>
  /\ LastCoins[1].possibly_nonzero
  /\ ~method.payable

CondStorageField ==
  /\ ctx.has_storage
  /\ arguments # <<>>
  /\ arguments[1].kind = "StorageAccess"
  /\ arguments[1].name \notin Range(StorageFields)

CondSyntax ==
  /\ ~method.is_contract_call
  /\ method_name_binding.inner.shape = "FromModule"
  /\ (method.parameters = <<>> \/ ~method.parameters[1].is_self)

FirstParamMutable == method.parameters # <<>> /\ method.parameters[1].is_mutable

FirstArgIsVariable == arguments # <<>> /\ arguments[1].kind = "Variable"

FirstArgIsMutableVariable ==
  /\ FirstArgIsVariable
  /\ Symbols[arguments[1].name].decl = "VariableDeclaration"
  /\ Symbols[arguments[1].name].mutable

CondMutability == FirstParamMutable /\ FirstArgIsVariable /\ ~FirstArgIsMutableVariable

CondAddress ==
  /\ method.is_contract_call
  /\ (arguments = <<>> \/ CallArgs[1].return_type # "Caller")

CondArity == ~ArgCountMatches

\* The return type the resolved declaration declares: that of the declaration
\* the namespace found, with the explicit type arguments put in.
DeclaredReturnType ==
  LET found == BaseDecls[FindMethodForType(ReceiverType(method_name_binding, CallArgs),
                                           method_name_binding.inner.method_name)]
  IN  IF method_name_binding.type_arguments = <<>> THEN found.return_type
      ELSE Subst(found.return_type, found.type_parameters,
                 method_name_binding.type_arguments)

\* ------------------------------------------------------------------------ C1
\* C1 as stated: every resolved call whose argument count equals the
\* parameter count and whose arguments all unify with their parameters
\* returns a typed call expression whose return type is the declared return
\* type of the declaration resolved to.
C1_AsStated ==
  (Finished /\ ArgCountMatches /\ AllArgsUnify) =>
    (exp # <<>> /\ exp[1].return_type = DeclaredReturnType)

\* C1 amended: the same, for the calls that no earlier fatal check ends
\* (visibility, non-payable coins, storage field lookup, call syntax,
\* receiver mutability, contract address).  Such a call also reports no
\* argument/parameter type mismatch.
C1_MatchingCallSucceeds ==
  (Finished /\ ArgCountMatches /\ AllArgsUnify
     /\ ~CondPrivate /\ ~CondCoins /\ ~CondStorageField /\ ~CondSyntax
     /\ ~CondMutability /\ ~CondAddress) =>
    /\ exp # <<>>
    /\ exp[1].return_type = DeclaredReturnType
    /\ exp[1].function_decl_id = decl_id
    /\ ~HasError("ArgumentParameterTypeMismatch")

\* A generic method called with an explicit type argument succeeds and returns
\* the type argument.
C1_Witness ==
  /\ Finished /\ ArgCountMatches /\ AllArgsUnify
  /\ method_name_binding.inner.method_name = "id"
  /\ method_name_binding.type_arguments = << "bool" >>
  /\ exp # <<>>
  /\ exp[1].return_type = "bool"

\* ------------------------------------------------------------------------ C2
\* C2 as stated: whenever the argument count (after the contract caller is
\* taken off for a contract call) differs from the parameter count, the call
\* fails with an arity error and returns no expression.
C2_AsStated ==
  (Finished /\ CondArity) => (exp = <<>> /\ \E k \in ArityKinds : HasError(k))

\* C2 amended: whenever the counts differ the call returns no expression, and
\* it fails with the arity error unless an earlier fatal check has ended the
\* call, in which case that check's error is reported and no arity error; no
\* typed call expression is ever assembled whose argument count differs from
\* the parameter count.
C2_ArityMismatchFails ==
  /\ (Finished /\ CondArity) =>
       /\ exp = <<>>
       /\ IF CondPrivate \/ CondCoins \/ CondStorageField \/ CondSyntax
             \/ CondMutability \/ CondAddress
            THEN \A k \in ArityKinds : ~HasError(k)
            ELSE LastErrorKind \in ArityKinds
  /\ (Done /\ exp # <<>>) =>
       /\ Len(exp[1].arguments) = Len(method.parameters)
       /\ Len(exp[1].arguments) = Len(PositionalArgs)

\* Too many arguments, each of which unifies with its parameter where there is
\* one: the call ends with the arity error.
C2_Witness ==
  /\ Finished /\ CondArity /\ AllArgsUnify
  /\ Len(PositionalArgs) > Len(method.parameters)
  /\ method.parameters # <<>>
  /\ exp = <<>>
  /\ LastErrorKind = "TooManyArgumentsForFunction"

\* ------------------------------------------------------------------------ C3
\* C3: a call to a private declaration from another source unit returns no
\* expression, its last diagnostic is the private-method error, and the only
\* diagnostics before it are those of the argument type check: no later
\* validator adds one, whatever the arguments are.
C3_PrivateCallFails ==
  (Finished /\ CondPrivate) =>
    /\ exp = <<>>
    /\ errors = Append(ArgumentErrors(arguments, ctx.has_storage, 1),
                       ErrNamed("CallingPrivateLibraryMethod", SpanOf("call", 0),
                                method.name))

\* A private method called from another unit with arguments wrong in number.
C3_Witness ==
  /\ Finished /\ CondPrivate /\ CondArity
  /\ contract_call_params # <<>>
  /\ LastErrorKind = "CallingPrivateLibraryMethod"

\* ------------------------------------------------------------------------ C4
SuppliesCoins ==
  \E i \in DOMAIN contract_call_params : contract_call_params[i].name = "coins"

SuppliesNonzeroCoins ==
  \E i \in DOMAIN contract_call_params :
    /\ contract_call_params[i].name = "coins"
    /\ contract_call_params[i].possibly_nonzero

\* A contract call made on a contract caller, caller.method{..}(..), that no
\* check other than the payability check ends.
PlainContractCall ==
  /\ Finished
  /\ method.is_contract_call
  /\ method_name_binding.inner.shape = "FromModule"
  /\ ~CondPrivate /\ ~CondStorageField /\ ~CondMutability /\ ~CondAddress /\ ~CondArity

\* C4 as stated, for calls that no other check ends: for a contract call
\* whose callee is not payable, a supplied coins parameter that cannot be
\* proven zero makes the call fail with CoinsPassedToNonPayableMethod and no
\* expression; with coins omitted the check does not fire and the call
\* succeeds.
C4_AsStated ==
  (PlainContractCall /\ ~method.payable) =>
    /\ SuppliesNonzeroCoins =>
         (exp = <<>> /\ HasError("CoinsPassedToNonPayableMethod"))
    /\ ~SuppliesCoins =>
         (exp # <<>> /\ ~HasError("CoinsPassedToNonPayableMethod"))

\* C4 amended: for a contract call that passes the visibility check and whose
\* callee is not payable: when the last coins parameter supplied cannot be
\* proven zero the call ends with CoinsPassedToNonPayableMethod as its last
\* diagnostic and no expression; when coins is omitted the check never fires,
\* and the call returns an expression unless a later fatal check (storage
\* field lookup, receiver mutability, contract address, arity) ends it.
C4_NonPayableCoins ==
  (Finished /\ method.is_contract_call /\ ~method.payable /\ ~CondPrivate) =>
    /\ (LastCoins # <<>> /\ LastCoins[1].possibly_nonzero) =>
         (exp = <<>> /\ LastErrorKind = "CoinsPassedToNonPayableMethod")
    /\ ~SuppliesCoins =>
         /\ ~HasError("CoinsPassedToNonPayableMethod")
         /\ exp = <<>> =>
              LastErrorKind \in
                { "StorageFieldDoesNotExist", "MethodRequiresMutableSelf",
                  "ContractAddressMustBeKnown" } \cup ArityKinds
         /\ (~CondStorageField /\ ~CondMutability /\ ~CondAddress /\ ~CondArity) =>
              exp # <<>>

\* Nonzero coins sent to the method that is not payable, after a gas parameter.
C4_Witness ==
  /\ Finished /\ method.is_contract_call /\ ~method.payable
  /\ Len(contract_call_params) = 2
  /\ contract_call_params[1].name = "gas"
  /\ LastCoins # <<>> /\ LastCoins[1].possibly_nonzero
  /\ exp = <<>>
  /\ LastErrorKind = "CoinsPassedToNonPayableMethod"

\* ------------------------------------------------------------------------ C5
\* The receiver as it is typed.
TypedReceiver == CallArgs[1]

\* No check other than the receiver mutability check ends the call.
NoOtherFatalThanMutability ==
  ~CondPrivate /\ ~CondCoins /\ ~CondStorageField /\ ~CondSyntax
  /\ ~CondAddress /\ ~CondArity

\* C5 as stated, for calls that no other check ends: when the first parameter
\* is mutable, a call whose first argument is anything but a reference to a
\* mutable variable fails with
\* MethodRequiresMutableSelf and returns no expression, and a call through a
\* mutable variable produces an expression whose argument mapping has the
\* receiver in first position.
C5_AsStated ==
  (Finished /\ FirstParamMutable /\ NoOtherFatalThanMutability) =>
    IF FirstArgIsMutableVariable
      THEN /\ exp # <<>>
           /\ exp[1].arguments # <<>>
           /\ exp[1].arguments[1][2] = TypedReceiver
      ELSE exp = <<>> /\ HasError("MethodRequiresMutableSelf")

\* C5 amended: when the first parameter is mutable and no earlier fatal check
\* (visibility, non-payable coins, storage field lookup, call syntax) ends
\* the call: a first argument that is a variable expression naming a constant
\* or an immutable variable makes the call end with MethodRequiresMutableSelf
\* and no expression; a first argument that is not a variable expression
\* (a literal, a storage access, no argument at all) is not checked and never
\* gets this error; a call through a mutable variable passes the check, and
\* when it returns an expression of a non-contract call the argument mapping
\* has that receiver, paired with the first parameter's name, in first
\* position.
C5_MutableSelf ==
  (Finished /\ FirstParamMutable
     /\ ~CondPrivate /\ ~CondCoins /\ ~CondStorageField /\ ~CondSyntax) =>
    /\ (FirstArgIsVariable /\ ~FirstArgIsMutableVariable) =>
         (exp = <<>> /\ LastErrorKind = "MethodRequiresMutableSelf")
    /\ (~FirstArgIsVariable \/ FirstArgIsMutableVariable) =>
         ~HasError("MethodRequiresMutableSelf")
    /\ (FirstArgIsMutableVariable /\ exp # <<>> /\ ~method.is_contract_call) =>
         /\ exp[1].arguments # <<>>
         /\ exp[1].arguments[1] =
              << method.parameters[1].name,
                 TyExpr("VariableExpression", arguments[1].name,
                        Symbols[arguments[1].name].type_id) >>

\* set called on the immutable variable i fails; this is the failing half.
C5_Witness ==
  /\ Finished /\ FirstParamMutable
  /\ method.name = "set"
  /\ arguments # <<>> /\ arguments[1] = Expr("Variable", "i")
  /\ exp = <<>>
  /\ LastErrorKind = "MethodRequiresMutableSelf"

\* ------------------------------------------------------------------------ C6
FirstParamNotSelf == method.parameters = <<>> \/ ~method.parameters[1].is_self

\* C6 as stated: a non-contract declaration whose first parameter is not self
\* succeeds when called with type-qualified syntax and fails with
\* AssociatedFunctionCalledAsMethod, returning no expression, when called
\* with method-call syntax; the check is never applied to contract calls.
C6_AsStated ==
  /\ (Finished /\ ~method.is_contract_call /\ FirstParamNotSelf) =>
       /\ method_name_binding.inner.shape = "FromType" =>
            (exp # <<>> /\ ~HasError("AssociatedFunctionCalledAsMethod"))
       /\ method_name_binding.inner.shape = "FromModule" =>
            (exp = <<>> /\ HasError("AssociatedFunctionCalledAsMethod"))
  /\ (Finished /\ method.is_contract_call) =>
       ~HasError("AssociatedFunctionCalledAsMethod")

\* C6 amended: for a non-contract declaration whose first parameter is not
\* self (or that has no parameter): a call with type-qualified syntax is never
\* rejected by the call-syntax check, and it returns an expression unless
\* another fatal check (visibility, storage field lookup, receiver
\* mutability, arity) ends it; the same declaration called with method-call
\* syntax returns no expression, and ends with
\* AssociatedFunctionCalledAsMethod unless the visibility check or the
\* storage field lookup has ended the call before; the check is never applied
\* to contract calls.
C6_CallSyntaxShape ==
  /\ (Finished /\ ~method.is_contract_call /\ FirstParamNotSelf) =>
       /\ method_name_binding.inner.shape = "FromType" =>
            /\ ~HasError("AssociatedFunctionCalledAsMethod")
            /\ (~CondPrivate /\ ~CondStorageField /\ ~CondMutability /\ ~CondArity) =>
                 exp # <<>>
            /\ exp = <<>> =>
                 LastErrorKind \in
                   { "CallingPrivateLibraryMethod", "StorageFieldDoesNotExist",
                     "MethodRequiresMutableSelf" } \cup ArityKinds
       /\ method_name_binding.inner.shape = "FromModule" =>
            /\ exp = <<>>
            /\ IF CondPrivate THEN LastErrorKind = "CallingPrivateLibraryMethod"
               ELSE IF CondStorageField THEN LastErrorKind = "StorageFieldDoesNotExist"
               ELSE LastErrorKind = "AssociatedFunctionCalledAsMethod"
  /\ (Finished /\ method.is_contract_call) =>
       ~HasError("AssociatedFunctionCalledAsMethod")

\* The associated function new(x) called as Type::new(1) returns an
\* expression without the syntax error.
C6_Witness ==
  /\ Finished /\ ~method.is_contract_call /\ FirstParamNotSelf
  /\ method.name = "new"
  /\ method_name_binding.inner.shape = "FromType"
  /\ arguments = << Expr("Literal", "u64") >>
  /\ exp # <<>>
  /\ errors = <<>>

\* ------------------------------------------------------------------------ C7
RecognizedNames == { "gas", "coins", "asset_id" }

Occurrences(name) ==
  { i \in DOMAIN contract_call_params : contract_call_params[i].name = name }

SuppliedNames == { contract_call_params[i].name : i \in DOMAIN contract_call_params }

RepeatedErrorsFor(name) ==
  { i \in DOMAIN errors :
      errors[i].kind = "ContractCallParamRepeated" /\ errors[i].name = name }

UnrecognizedErrorsAt(i) ==
  { j \in DOMAIN errors :
      errors[j].kind = "UnrecognizedContractParam" /\ errors[j].span = SpanOf("param", i) }

\* C7 as stated, for contract calls that no fatal check ends: every distinct
\* supplied name that appears more than once gets exactly one
\* ContractCallParamRepeated, and every occurrence of a name other than gas,
\* coins, asset_id gets exactly one UnrecognizedContractParam at that
\* parameter's name.
C7_AsStated ==
  (PlainContractCall /\ ~CondCoins) =>
    /\ \A n \in SuppliedNames :
         Cardinality(Occurrences(n)) > 1 => Cardinality(RepeatedErrorsFor(n)) = 1
    /\ \A i \in DOMAIN contract_call_params :
         contract_call_params[i].name \notin RecognizedNames =>
           Cardinality(UnrecognizedErrorsAt(i)) = 1

\* C7 amended: in a contract call that passes the visibility check, each of
\* the names gas, coins, asset_id that appears more than once gets exactly
\* one ContractCallParamRepeated however often it is repeated, and no other
\* name gets one (a repeated unrecognised name is only reported per
\* occurrence); every occurrence of a name other than gas, coins, asset_id
\* gets exactly one UnrecognizedContractParam located at that parameter's
\* name, carrying the name; neither diagnostic ends the call.
C7_CallParamDiagnostics ==
  /\ (Finished /\ method.is_contract_call /\ ~CondPrivate) =>
       /\ \A n \in RecognizedNames :
            Cardinality(RepeatedErrorsFor(n)) =
              IF Cardinality(Occurrences(n)) > 1 THEN 1 ELSE 0
       /\ CountKind(errors, "ContractCallParamRepeated") =
            Cardinality({ n \in RecognizedNames : Cardinality(Occurrences(n)) > 1 })
       /\ \A i \in DOMAIN contract_call_params :
            contract_call_params[i].name \notin RecognizedNames =>
              /\ Cardinality(UnrecognizedErrorsAt(i)) = 1
              /\ \A j \in UnrecognizedErrorsAt(i) :
                   errors[j].name = contract_call_params[i].name
       /\ CountKind(errors, "UnrecognizedContractParam") =
            Cardinality({ i \in DOMAIN contract_call_params :
                            contract_call_params[i].name \notin RecognizedNames })
  /\ (Done /\ exp = <<>>) =>
       LastErrorKind \notin { "ContractCallParamRepeated", "UnrecognizedContractParam" }

\* gas supplied twice: one ContractCallParamRepeated, and the call still
\* returns its expression.
C7_Witness ==
  /\ Finished /\ method.is_contract_call
  /\ Len(contract_call_params) >= 2
  /\ \A i \in DOMAIN contract_call_params : contract_call_params[i].name = "gas"
  /\ CountKind(errors, "ContractCallParamRepeated") = 1
  /\ exp # <<>>

\* ------------------------------------------------------------------------ C8
\* A step in which resolve_method_name succeeds.
ResolveSucceeds == pc = "resolve" /\ pc' = After("resolve")

\* C8: every successful resolve_method_name inserts one new declaration and
\* returns its id, whose parent link is the id the namespace lookup returned;
\* no step changes an entry or a parent link that is already in the store, so
\* the declaration resolved from stays as it was, and a failing resolution
\* and every other step leave the store alone.
C8_ResolutionInsertsCopy ==
  [][ /\ Len(decls') >= Len(decls)
      /\ \A i \in DOMAIN decls : decls'[i] = decls[i] /\ parents'[i] = parents[i]
      /\ IF ResolveSucceeds
           THEN /\ Len(decls') = Len(decls) + 1
                /\ Len(parents') = Len(decls')
                /\ decl_id' = Len(decls')
                /\ decl_id' \notin DOMAIN decls
                /\ parents'[decl_id'] =
                     FindMethodForType(ReceiverType(method_name_binding, args_buf),
                                       method_name_binding.inner.method_name)
                /\ parents'[decl_id'] \in DOMAIN BaseDecls
           ELSE decls' = decls /\ parents' = parents
    ]_vars

\* The generic method id resolved twice, once for u64 and once for bool: two
\* distinct ids, both with the generic declaration as parent, which is as it
\* was.
C8_Witness ==
  LET generic == FindMethodForType("S", "id")
  IN  \E i, j \in DOMAIN decls :
        /\ i # j
        /\ i > Len(BaseDecls) /\ j > Len(BaseDecls)
        /\ parents[i] = generic /\ parents[j] = generic
        /\ decls[i].return_type = "u64" /\ decls[j].return_type = "bool"
        /\ decls[generic] = BaseDecls[generic]
        /\ parents[generic] = 0

\* ------------------------------------------------------------------------ C9
FirstArgIsStorageAccess == arguments # <<>> /\ arguments[1].kind = "StorageAccess"

\* C9 as stated: in every typed call expression the storage field index is
\* set if and only if the first argument is a storage access expression.
C9_AsStated ==
  (Done /\ exp # <<>>) =>
    (exp[1].self_state_idx # <<>> <=> FirstArgIsStorageAccess)

\* C9 amended: in every typed call expression the storage field index is set
\* if and only if the enclosing unit declares storage and the first argument
\* is a storage access expression, and it is then the position of the
\* accessed field among the storage fields; it is None for a call without
\* arguments, for any other first argument and whenever no storage is
\* declared.
C9_StorageFieldIndex ==
  (Done /\ exp # <<>>) =>
    /\ exp[1].self_state_idx # <<>> <=> (ctx.has_storage /\ FirstArgIsStorageAccess)
    /\ exp[1].self_state_idx # <<>> =>
         StorageFields[exp[1].self_state_idx[1] + 1] = arguments[1].name

\* A call on a storage field followed by another argument carries the index
\* of the field.
C9_Witness ==
  /\ Done /\ exp # <<>>
  /\ Len(arguments) = 2
  /\ arguments[1] = Expr("StorageAccess", "f1")
  /\ exp[1].self_state_idx = << 1 >>

\* ----------------------------------------------------------------------- C10
\* The six fatal checks in the order the claim gives them.
FatalClass(kind) ==
  CASE kind = "CallingPrivateLibraryMethod"      -> 1
    [] kind = "CoinsPassedToNonPayableMethod"    -> 2
    [] kind = "AssociatedFunctionCalledAsMethod" -> 3
    [] kind = "MethodRequiresMutableSelf"        -> 4
    [] kind = "ContractAddressMustBeKnown"       -> 5
    [] kind \in ArityKinds                       -> 6
    [] OTHER                                     -> 0

FatalCond(k) ==
  CASE k = 1 -> CondPrivate
    [] k = 2 -> CondCoins
    [] k = 3 -> CondSyntax
    [] k = 4 -> CondMutability
    [] k = 5 -> CondAddress
    [] k = 6 -> CondArity

FatalErrors == { i \in DOMAIN errors : FatalClass(errors[i].kind) # 0 }

\* C10: the diagnostics of a call contain at most one of the six fatal
\* errors; when there is one it is the last diagnostic, the call returns no
\* expression, its condition holds for the call and the condition of no check
\* earlier in the order visibility, non-payable coins, call syntax, receiver
\* mutability, contract address, arity does.  Conversely a resolved call for
\* which one of the six conditions holds ends with the earliest of them,
\* unless the storage field lookup, which stands between the second and the
\* third, has ended it.
C10_FatalOrder ==
  /\ Cardinality(FatalErrors) <= 1
  /\ \A i \in FatalErrors :
       /\ Finished
       /\ i = Len(errors)
       /\ exp = <<>>
       /\ FatalCond(FatalClass(errors[i].kind))
       /\ \A k \in 1..(FatalClass(errors[i].kind) - 1) : ~FatalCond(k)
  /\ (Finished /\ (\E k \in 1..6 : FatalCond(k))
        /\ ~(CondStorageField /\ ~CondPrivate /\ ~CondCoins)) =>
       FatalErrors # {}

\* A call for which the conditions of the call syntax check, of the receiver
\* mutability check and of the arity check all hold ends with the first of
\* the three.
C10_Witness ==
  /\ Finished
  /\ CondSyntax /\ CondMutability /\ CondArity
  /\ ~CondPrivate /\ ~CondCoins
  /\ LastErrorKind = "AssociatedFunctionCalledAsMethod"
  /\ exp = <<>>

\* ----------------------------------------------------------------------- C11
\* A resolved call for which the condition of no check that ends a call holds.
NoFatalCondition ==
  /\ Finished
  /\ ~CondPrivate /\ ~CondCoins /\ ~CondStorageField /\ ~CondSyntax
  /\ ~CondMutability /\ ~CondAddress /\ ~CondArity

\* The callee is not a contract call and the caller's purity cannot call it.
PurityViolation ==
  /\ ~method.is_contract_call
  /\ ~CanCall(ctx.purity, method.purity)

\* Positions of the arguments whose type does not unify with the type of the
\* parameter at the same position.
NonUnifying ==
  { i \in DOMAIN PositionalArgs :
      /\ i <= Len(method.parameters)
      /\ ~Unifies(PositionalArgs[i].return_type, method.parameters[i].type_id) }

MismatchErrors ==
  { i \in DOMAIN errors : errors[i].kind = "ArgumentParameterTypeMismatch" }

\* C11: a call in which no fatal condition holds returns a typed expression
\* whatever non-fatal violations it has: a purity violation adds exactly one
\* StorageAccessMismatch (and there is none without one), each argument that
\* does not unify with its positional parameter adds exactly one
\* ArgumentParameterTypeMismatch at that argument (and there is no other),
\* and the name-to-argument mapping of the expression has one entry per
\* parameter, the i-th pairing the i-th parameter's name with the i-th
\* argument in the order of the call site (for a contract call the arguments
\* after the contract caller).
C11_NonFatalViolations ==
  NoFatalCondition =>
    /\ exp # <<>>
    /\ CountKind(errors, "StorageAccessMismatch") = (IF PurityViolation THEN 1 ELSE 0)
    /\ Cardinality(MismatchErrors) = Cardinality(NonUnifying)
    /\ { errors[i].span : i \in MismatchErrors } = { SpanOf("arg", i) : i \in NonUnifying }
    /\ Len(exp[1].arguments) = Len(method.parameters)
    /\ \A i \in DOMAIN method.parameters :
         exp[1].arguments[i] = << method.parameters[i].name, PositionalArgs[i] >>

\* A call from a pure context to a method that writes storage, whose two
\* arguments both fail to unify: three diagnostics and the expression.
C11_Witness ==
  /\ NoFatalCondition
  /\ PurityViolation
  /\ Cardinality(NonUnifying) = 2
  /\ CountKind(errors, "StorageAccessMismatch") = 1
  /\ Cardinality(MismatchErrors) = 2
  /\ exp # <<>>
  /\ Len(exp[1].arguments) = 2

\* ----------------------------------------------------------------------- C12
CallParamErrors ==
  { i \in DOMAIN errors : errors[i].kind = "CallParamForNonContractCallMethod" }

\* C12 as stated, for calls that no fatal check ends: when n >= 1
\* contract-call parameters are supplied to a call whose resolved declaration
\* is not a contract call, n CallParamForNonContractCallMethod diagnostics
\* are emitted, each at the name of the first parameter supplied, the call
\* returns its expression and the contract-call parameter bundle of the
\* expression is empty.
C12_AsStated ==
  (NoFatalCondition /\ ~method.is_contract_call /\ contract_call_params # <<>>) =>
    /\ Cardinality(CallParamErrors) = Len(contract_call_params)
    /\ \A i \in CallParamErrors : errors[i].span = SpanOf("param", 1)
    /\ exp # <<>>
    /\ exp[1].contract_call_params = EmptyMap

\* C12 amended: when n >= 1 contract-call parameters are supplied to a call
\* whose resolved declaration is not a contract call and which passes the
\* visibility check, exactly one CallParamForNonContractCallMethod diagnostic
\* is emitted, whatever n is, at the name of the first parameter supplied;
\* no parameter is reported as repeated or unrecognised; the diagnostic does
\* not end the call, which returns its expression unless a fatal check ends
\* it, and the contract-call parameter bundle of the expression is empty.  A
\* call without contract-call parameters, a contract call and a call the
\* visibility check ends carry no such diagnostic.
C12_CallParamForNonContractCall ==
  /\ (Finished /\ ~method.is_contract_call /\ contract_call_params # <<>>
        /\ ~CondPrivate) =>
       /\ Cardinality(CallParamErrors) = 1
       /\ \A i \in CallParamErrors : errors[i].span = SpanOf("param", 1)
       /\ ~HasError("ContractCallParamRepeated")
       /\ ~HasError("UnrecognizedContractParam")
       /\ exp # <<>> <=>
            ~(CondStorageField \/ CondSyntax \/ CondMutability \/ CondArity)
       /\ exp # <<>> => exp[1].contract_call_params = EmptyMap
  /\ (Finished /\ (method.is_contract_call \/ contract_call_params = <<>> \/ CondPrivate)) =>
       CallParamErrors = {}

\* Two contract-call parameters on a method that is not a contract call: one
\* diagnostic, and the expression with an empty bundle.
C12_Witness ==
  /\ NoFatalCondition
  /\ ~method.is_contract_call
  /\ Len(contract_call_params) = 2
  /\ Cardinality(CallParamErrors) = 1
  /\ exp # <<>>
  /\ exp[1].contract_call_params = EmptyMap

====
